---- MODULE Spec2Model ----
(***************************************************************************)
(* Model of vulkanus-renderer: the driver loop and frame compositor of     *)
(* src/main.rs and the frame pipeline of src/render/mod.rs.                *)
(*                                                                         *)
(* Pixel buffers are byte sequences (row-major RGBA, 4 bytes per pixel),   *)
(* as the Vec<u8> handed to ImageBuffer::from_raw.  The terminal is a grid *)
(* of cells, each showing a glyph in a colour; the commands queued on      *)
(* stdout are applied to it in the order they are queued.                  *)
(*                                                                         *)
(* frame_average is an f32 in the source.  It is modelled as an exact      *)
(* reduced fraction <<numerator, denominator>>; the rounding of the f32    *)
(* operations is not modelled.                                             *)
(***************************************************************************)
EXTENDS Integers, Sequences, FiniteSets, TLC

VARIABLES
    pc,              \* position of main: "new", "loop", "render", "submitted",
                     \* "read", "present", "exit"
    width, height,   \* terminal::size(), sampled once
    palette,         \* RGBA values the scene's pixels take
    i,               \* index of the current slot of swapchain
    swapchain,       \* the two ImageBuffers, slots 0 and 1
    frame_average,   \* smoothed frame duration in ms, <<num, den>>
    emitted,         \* updates queued on stdout during the latest frame
    screen,          \* what each terminal cell displays
    frames,          \* number of completed loop iterations
    durations,       \* measured duration of each completed frame (history)
    lastRendered,    \* image returned by the latest render call (history)
    prevRendered,    \* image returned by the render call before it (history)
    mesh,            \* the sequences handed to Pipeline::new
    vertex_buffer,   \* Pipeline.vertex_buffer
    index_buffer,    \* Pipeline.index_buffer
    output_buffer,   \* Pipeline.output_buffer (host readable)
    in_flight,       \* command buffers submitted and not yet finished
    fence,           \* completion fence of the latest submission
    v,               \* the Vec<u8> render returns
    events           \* events of the current render call, in order (history)

vars == <<pc, width, height, palette, i, swapchain, frame_average, emitted, screen,
          frames, durations, lastRendered, prevRendered, mesh, vertex_buffer,
          index_buffer, output_buffer, in_flight, fence, v, events>>

compositorVars == <<swapchain, frame_average, emitted, screen, frames,
                    durations, lastRendered, prevRendered>>
pipelineVars == <<mesh, vertex_buffer, index_buffer, output_buffer, in_flight,
                  fence, v, events>>

----------------------------------------------------------------------------
(* Bounds and input sets *)

MaxFrames == 3

\* RGBA values of a pixel: the clear value of the render pass, an opaque
\* red, and a transparent pixel with a non-zero colour channel
ClearPixel == <<0, 0, 0, 0>>
RedPixel == <<255, 0, 0, 255>>
HiddenBluePixel == <<0, 0, 255, 0>>

\* scenes the compositor is run on: <<cols, rows, pixel values of the scene>>
Scenes == { <<2, 2, {ClearPixel, RedPixel}>>,
            <<2, 1, {ClearPixel, RedPixel, HiddenBluePixel}>> }

\* scenes the pipeline is run on
PipelineScenes == { <<2, 1, {ClearPixel, RedPixel}>> }

\* values of frame_duration.elapsed().as_millis()
Durations == {0, 20}

\* meshes handed to Pipeline::new: flat positions/normals (3 floats per
\* vertex, values irrelevant) and triangle indices
Meshes ==
    { [positions |-> [k \in 1..(3 * n) |-> 0],
       normals   |-> [k \in 1..(3 * n) |-> 0],
       indices   |-> ix] :
      n \in {1, 2}, ix \in {<<0, 0, 0>>, <<0, 1, 0>>, <<0, 1, 2>>} }

NoMesh == [positions |-> <<>>, normals |-> <<>>, indices |-> <<>>]

----------------------------------------------------------------------------
(* Pixel buffers *)

\* vec![0 as u8; (height * width * 4) as usize]
blank_image_sentinel(w, h) == [k \in 1..(h * w * 4) |-> 255]
blank_image(w, h) == [k \in 1..(h * w * 4) |-> 0]

\* ImageBuffer::get_pixel(x, y) on a row-major RGBA byte buffer
get_pixel(buf, w, x, y) ==
    LET o == (y * w + x) * 4
    IN  <<buf[o + 1], buf[o + 2], buf[o + 3], buf[o + 4]>>

\* the byte buffers a render call can return for a w x h target
Frames(w, h, pal) ==
    { [k \in 1..(w * h * 4) |-> f[(k - 1) \div 4][((k - 1) % 4) + 1]] :
      f \in [0..(w * h - 1) -> pal] }

----------------------------------------------------------------------------
(* Glyphs and updates *)

get_ascii_blue(pixel) == IF pixel[3] = 0 THEN " " ELSE "0"
get_ascii(pixel) == IF pixel[4] = 0 THEN " " ELSE "0"

\* *swapchain[1 - i].get_pixel(x, y) != *pixel
PixelDiffers_redrawOpaque(a, b) == a # b \/ b[4] # 0
PixelDiffers(a, b) == a # b

\* MoveTo(x, y), SetForegroundColor(Rgb{r, g, b}), Print(get_ascii(pixel))
MeshUpdate(x, y, pixel) ==
    [kind |-> "mesh", x |-> x, y |-> y,
     color |-> <<pixel[1], pixel[2], pixel[3]>>,
     text |-> <<get_ascii(pixel)>>]

\* the loop over enumerate_pixels() (raster order), from pixel number k on
RECURSIVE DiffFrom(_, _, _, _, _)
DiffFrom(cur, prev, w, h, k) ==
    IF k >= w * h THEN <<>>
    ELSE LET x == k % w
             y == k \div w
             pixel == get_pixel(cur, w, x, y)
         IN  (IF PixelDiffers(get_pixel(prev, w, x, y), pixel)
              THEN <<MeshUpdate(x, y, pixel)>> ELSE <<>>)
             \o DiffFrom(cur, prev, w, h, k + 1)

RECURSIVE RewriteFrom(_, _, _, _, _)
RewriteFrom(cur, prev, w, h, k) ==
    IF k >= w * h THEN <<>>
    ELSE <<MeshUpdate(k % w, k \div w, get_pixel(cur, w, k % w, k \div w))>>
         \o RewriteFrom(cur, prev, w, h, k + 1)

DiffUpdates_fullRewrite(cur, prev, w, h) == RewriteFrom(cur, prev, w, h, 0)
DiffUpdates(cur, prev, w, h) == DiffFrom(cur, prev, w, h, 0)

----------------------------------------------------------------------------
(* Frame timing and the overlay *)

RECURSIVE GCD(_, _)
GCD(a, b) == IF b = 0 THEN a ELSE GCD(b, a % b)

Reduce(q) == LET g == GCD(q[1], q[2]) IN <<q[1] \div g, q[2] \div g>>

\* frame_average * 0.95 + frame_duration as f32 * 0.05
NextAverage_tenth(fa, D) == Reduce(<<9 * fa[1] + D * fa[2], 10 * fa[2]>>)
NextAverage(fa, D) == Reduce(<<19 * fa[1] + D * fa[2], 20 * fa[2]>>)

DigitChar(d) == <<"0", "1", "2", "3", "4", "5", "6", "7", "8", "9">>[d + 1]

RECURSIVE IntText(_)
IntText(n) ==
    IF n < 10 THEN <<DigitChar(n)>>
    ELSE IntText(n \div 10) \o <<DigitChar(n % 10)>>

\* fractional digits of r/q, at most k of them, none once the remainder is 0
RECURSIVE FracText(_, _, _)
FracText(r, q, k) ==
    IF r = 0 \/ k = 0 THEN <<>>
    ELSE <<DigitChar((r * 10) \div q)>> \o FracText((r * 10) % q, q, k - 1)

\* the text Print writes for the f32 1.0 / (frame_average / 1000.0):
\* "inf" when frame_average is 0, an integer without a fraction, otherwise
\* the leading digits of the quotient
FpsText(fa) ==
    IF fa[1] = 0 THEN <<"i", "n", "f">>
    ELSE LET p == 1000 * fa[2]
             q == fa[1]
         IN  IntText(p \div q)
             \o (IF p % q = 0 THEN <<>> ELSE <<".">> \o FracText(p % q, q, 4))

\* MoveTo(0, 0), SetForegroundColor(Rgb{255, 0, 0}), Print(1.0 / ...)
OverlayUpdate(fa) ==
    [kind |-> "overlay", x |-> 0, y |-> 0, color |-> <<255, 0, 0>>,
     text |-> FpsText(fa)]

\* everything one iteration queues: lines 73-85
FrameUpdates_overlayInDiff(cur, prev, w, h, fa) ==
    DiffUpdates(cur, prev, w, h)
    \o (IF PixelDiffers(get_pixel(prev, w, 0, 0), get_pixel(cur, w, 0, 0))
        THEN <<OverlayUpdate(fa)>> ELSE <<>>)
FrameUpdates(cur, prev, w, h, fa) ==
    DiffUpdates(cur, prev, w, h) \o <<OverlayUpdate(fa)>>

----------------------------------------------------------------------------
(* The terminal *)

\* Clear(ClearType::All): every cell blank
ClearedScreen(w, h) ==
    [c \in 0..(w * h - 1) |-> [glyph |-> " ", color |-> <<>>]]

\* one update applied to the screen: the characters of its text go to
\* consecutive cells of row y starting at column x; what a terminal does
\* with characters past the last column is not modelled
ApplyUpdate(scr, u, w) ==
    [c \in DOMAIN scr |->
        LET cx == c % w
            cy == c \div w
        IN  IF cy = u.y /\ cx >= u.x /\ cx - u.x < Len(u.text)
            THEN [glyph |-> u.text[cx - u.x + 1], color |-> u.color]
            ELSE scr[c]]

RECURSIVE ApplyAll(_, _, _)
ApplyAll(scr, us, w) ==
    IF us = <<>> THEN scr
    ELSE ApplyAll(ApplyUpdate(scr, Head(us), w), Tail(us), w)

----------------------------------------------------------------------------
(* The driver loop of main *)

\* line 64
ToggleIndex_stuck(idx) == idx
ToggleIndex(idx) == 1 - idx

\* lines 66-85 with the render result new_image, the already toggled index
\* idx and the measured duration D
Present(new_image, idx, D) ==
    LET sc  == [swapchain EXCEPT ![idx] = new_image]
        fa  == NextAverage(frame_average, D)
        ups == FrameUpdates(sc[idx], sc[1 - idx], width, height, fa)
    IN  /\ swapchain' = sc
        /\ frame_average' = fa
        /\ emitted' = ups
        /\ screen' = ApplyAll(screen, ups, width)
        /\ frames' = frames + 1
        /\ durations' = Append(durations, D)
        /\ lastRendered' = new_image
        /\ prevRendered' = lastRendered

\* lines 66-85 when a queue call on stdout returns an error after n of the
\* frame's updates were queued: main returns
PresentFails(new_image, idx, D, n) ==
    LET sc  == [swapchain EXCEPT ![idx] = new_image]
        fa  == NextAverage(frame_average, D)
        ups == FrameUpdates(sc[idx], sc[1 - idx], width, height, fa)
        cut == SubSeq(ups, 1, n)
    IN  /\ n < Len(ups)
        /\ swapchain' = sc
        /\ frame_average' = IF n = Len(ups) - 1 THEN fa ELSE frame_average
        /\ emitted' = cut
        /\ screen' = ApplyAll(screen, cut, width)
        /\ lastRendered' = new_image
        /\ prevRendered' = lastRendered
        /\ UNCHANGED <<frames, durations>>

\* state at the top of the loop for a w x h terminal: lines 29-59
LoopEntry(w, h) ==
    /\ width = w
    /\ height = h
    /\ i = 0
    /\ swapchain = [s \in {0, 1} |-> blank_image(w, h)]
    /\ frame_average = <<0, 1>>
    /\ emitted = <<>>
    /\ screen = ClearedScreen(w, h)
    /\ frames = 0
    /\ durations = <<>>
    /\ lastRendered = blank_image(w, h)
    /\ prevRendered = blank_image(w, h)

----------------------------------------------------------------------------
(* Specification of the compositor: render is one step *)

Init ==
    /\ pc = "loop"
    /\ \E sc \in Scenes : palette = sc[3] /\ LoopEntry(sc[1], sc[2])
    /\ mesh = NoMesh
    /\ vertex_buffer = <<>>
    /\ index_buffer = <<>>
    /\ output_buffer = <<>>
    /\ in_flight = 0
    /\ fence = "none"
    /\ v = <<>>
    /\ events = <<>>

\* one iteration of the loop, lines 61-86, render returning Ok(new_image)
Frame ==
    /\ pc = "loop"
    /\ frames < MaxFrames
    /\ \E new_image \in Frames(width, height, palette), D \in Durations :
          /\ i' = ToggleIndex(i)
          /\ Present(new_image, ToggleIndex(i), D)
    /\ UNCHANGED <<pc, width, height, palette, pipelineVars>>

\* render returns Err: main returns at the ? of line 65
RenderErr ==
    /\ pc = "loop"
    /\ frames < MaxFrames
    /\ i' = ToggleIndex(i)
    /\ pc' = "exit"
    /\ UNCHANGED <<width, height, palette, compositorVars, pipelineVars>>

\* a queue call on stdout returns Err: main returns at a ? of lines 76-85
TerminalErr ==
    /\ pc = "loop"
    /\ frames < MaxFrames
    /\ \E new_image \in Frames(width, height, palette), D \in Durations,
          n \in 0..(width * height) :
          /\ i' = ToggleIndex(i)
          /\ PresentFails(new_image, ToggleIndex(i), D, n)
    /\ pc' = "exit"
    /\ UNCHANGED <<width, height, palette, pipelineVars>>

Next == Frame \/ RenderErr \/ TerminalErr

Spec == Init /\ [][Next]_vars

----------------------------------------------------------------------------
(* The frame pipeline: Pipeline::new and the steps of Pipeline::render *)

VertexCount(positions) == Len(positions) \div 3

\* future.wait(None): returns once the fence is signalled
FenceReady_noWait(f) == TRUE
FenceReady(f) == f = "signalled"

InitPipeline ==
    /\ pc = "new"
    /\ \E sc \in PipelineScenes : palette = sc[3] /\ LoopEntry(sc[1], sc[2])
    /\ mesh \in Meshes
    /\ vertex_buffer = <<>>
    /\ index_buffer = <<>>
    /\ output_buffer = <<>>
    /\ in_flight = 0
    /\ fence = "none"
    /\ v = <<>>
    /\ events = <<>>

\* Pipeline::new returning Ok: the three sequences are uploaded as given
PipelineNew ==
    /\ pc = "new"
    /\ vertex_buffer' = mesh.positions
    /\ index_buffer' = mesh.indices
    /\ output_buffer' = [k \in 1..(width * height * 4) |-> 0]
    /\ pc' = "loop"
    /\ UNCHANGED <<width, height, palette, i, compositorVars, mesh, in_flight,
                   fence, v, events>>

\* Pipeline::new returning Err at one of its ? (an allocation or the
\* pipeline build fails): main returns
PipelineNewErr ==
    /\ pc = "new"
    /\ pc' = "exit"
    /\ UNCHANGED <<width, height, palette, i, compositorVars, pipelineVars>>

\* main lines 62-65: toggle the index and call render
LoopBegin ==
    /\ pc = "loop"
    /\ frames < MaxFrames
    /\ i' = ToggleIndex(i)
    /\ events' = <<>>
    /\ pc' = "render"
    /\ UNCHANGED <<width, height, palette, compositorVars, mesh,
                   vertex_buffer, index_buffer, output_buffer, in_flight,
                   fence, v>>

\* render lines 134-139: then_execute and then_signal_fence_and_flush
Submit ==
    /\ pc = "render"
    /\ in_flight' = in_flight + 1
    /\ fence' = "unsignalled"
    /\ events' = Append(events, "submit")
    /\ pc' = "submitted"
    /\ UNCHANGED <<width, height, palette, i, compositorVars, mesh,
                   vertex_buffer, index_buffer, output_buffer, v>>

\* the GPU runs the submitted commands (draw_indexed over index_buffer,
\* copy_image_to_buffer into output_buffer) and signals the fence; the image
\* is any image of the scene, also when an index reads past vertex_buffer
GpuExecute ==
    /\ in_flight > 0
    /\ output_buffer' \in Frames(width, height, palette)
    /\ in_flight' = in_flight - 1
    /\ fence' = "signalled"
    /\ events' = Append(events, "signal")
    /\ UNCHANGED <<pc, width, height, palette, i, compositorVars, mesh,
                   vertex_buffer, index_buffer, v>>

\* render line 140
FenceWait ==
    /\ pc = "submitted"
    /\ FenceReady(fence)
    /\ pc' = "read"
    /\ UNCHANGED <<width, height, palette, i, compositorVars, pipelineVars>>

\* render lines 142-144: copy output_buffer and return it; a read while the
\* GPU still writes the buffer sees any content
ReadOutput ==
    /\ pc = "read"
    /\ IF in_flight = 0
       THEN v' = output_buffer
       ELSE v' \in Frames(width, height, palette) \cup {output_buffer}
    /\ events' = events \o <<"read", "return">>
    /\ pc' = "present"
    /\ UNCHANGED <<width, height, palette, i, compositorVars, mesh,
                   vertex_buffer, index_buffer, output_buffer, in_flight,
                   fence>>

\* render returns Err at one of its ? (lines 113-119 before the submission,
\* line 142 after the wait): main returns
RenderFails ==
    /\ pc \in {"render", "read"}
    /\ pc' = "exit"
    /\ UNCHANGED <<width, height, palette, i, compositorVars, pipelineVars>>

\* main lines 66-85 with the image render returned
PresentStep ==
    /\ pc = "present"
    /\ \E D \in Durations : Present(v, i, D)
    /\ pc' = "loop"
    /\ UNCHANGED <<width, height, palette, i, pipelineVars>>

\* main lines 66-85 when a queue call on stdout returns Err
PresentErr ==
    /\ pc = "present"
    /\ \E D \in Durations, n \in 0..(width * height) :
          PresentFails(v, i, D, n)
    /\ pc' = "exit"
    /\ UNCHANGED <<width, height, palette, i, pipelineVars>>

NextPipeline ==
    \/ PipelineNew \/ PipelineNewErr \/ LoopBegin \/ Submit \/ GpuExecute
    \/ FenceWait \/ ReadOutput \/ RenderFails \/ PresentStep \/ PresentErr

SpecPipeline == InitPipeline /\ [][NextPipeline]_vars

----------------------------------------------------------------------------
(* Properties *)

\* an iteration of the loop has completed and main is at the top of the loop
Completed == pc = "loop" /\ frames > 0

\* pixel numbers (raster order) whose four bytes differ between two buffers
Changed(cur, prev) ==
    { k \in 0..(width * height - 1) :
        \E c \in 1..4 : cur[4 * k + c] # prev[4 * k + c] }

IsMesh(u) == u.kind = "mesh"
MeshEmitted == SelectSeq(emitted, IsMesh)

\* the bytes of pixel number k of the current buffer
CurByte(k, c) == swapchain[i][4 * k + c]

\* C1: in every completed frame the number of queued updates is the number
\* of changed pixels plus one; when exactly one pixel changed, exactly one
\* mesh update is queued and it targets that pixel
C1_UpdateCount ==
    Completed =>
        LET ch == Changed(swapchain[i], swapchain[1 - i])
        IN  /\ Len(emitted) = Cardinality(ch) + 1
            /\ Cardinality(ch) = 1 =>
                  /\ Len(MeshEmitted) = 1
                  /\ \A k \in ch : /\ MeshEmitted[1].x = k % width
                                   /\ MeshEmitted[1].y = k \div width

\* scenario B: on a 2x2 terminal an opaque red pixel appears at (1,1) in
\* frame 2 and nothing else changes
C1_Witness ==
    /\ Completed /\ frames = 2 /\ width = 2 /\ height = 2
    /\ Changed(swapchain[i], swapchain[1 - i]) = {3}
    /\ Len(emitted) = 2
    /\ emitted[1] = [kind |-> "mesh", x |-> 1, y |-> 1,
                     color |-> <<255, 0, 0>>, text |-> <<"0">>]

\* C2: no mesh update is queued for a coordinate whose pixel is bytewise
\* identical in the current and the previous buffer
C2_NoOpStable ==
    Completed =>
        \A k \in (0..(width * height - 1))
                    \ Changed(swapchain[i], swapchain[1 - i]) :
            \A j \in 1..Len(emitted) :
                IsMesh(emitted[j]) =>
                    ~(emitted[j].x = k % width /\ emitted[j].y = k \div width)

\* an opaque pixel stays as it is while another pixel changes
C2_Witness ==
    /\ Completed /\ frames >= 2
    /\ \E k \in 0..(width * height - 1) :
          /\ k \notin Changed(swapchain[i], swapchain[1 - i])
          /\ CurByte(k, 4) # 0
    /\ Len(MeshEmitted) >= 1

\* C3: a mesh update for a pixel with alpha 0 prints a space whatever its
\* RGB; for a pixel with alpha # 0 it prints the glyph "0" in the pixel's RGB
C3_GlyphAndColor ==
    Completed =>
        \A j \in 1..Len(emitted) :
            IsMesh(emitted[j]) =>
                LET k == emitted[j].y * width + emitted[j].x
                IN  /\ CurByte(k, 4) = 0 => emitted[j].text = <<" ">>
                    /\ CurByte(k, 4) # 0 =>
                          /\ emitted[j].text = <<"0">>
                          /\ emitted[j].color =
                                <<CurByte(k, 1), CurByte(k, 2), CurByte(k, 3)>>

\* one frame queues an update for a transparent pixel with a non-zero blue
\* channel and one for an opaque red pixel
C3_Witness ==
    /\ Completed
    /\ \E j \in 1..Len(emitted) :
          /\ IsMesh(emitted[j])
          /\ emitted[j].color = <<0, 0, 255>> /\ emitted[j].text = <<" ">>
    /\ \E j \in 1..Len(emitted) :
          /\ IsMesh(emitted[j])
          /\ emitted[j].color = <<255, 0, 0>> /\ emitted[j].text = <<"0">>

\* C4: every completed frame queues exactly one overlay update, at (0,0), in
\* the colour (255,0,0), after all mesh updates of the frame
C4_OverlayLast ==
    Completed =>
        /\ Len(emitted) >= 1
        /\ LET u == emitted[Len(emitted)]
           IN  /\ u.kind = "overlay"
               /\ u.x = 0 /\ u.y = 0
               /\ u.color = <<255, 0, 0>>
        /\ \A j \in 1..(Len(emitted) - 1) : IsMesh(emitted[j])

\* the pixel at (0,0) did not change, other pixels did
C4_Witness ==
    /\ Completed /\ frames >= 2
    /\ 0 \notin Changed(swapchain[i], swapchain[1 - i])
    /\ Len(emitted) >= 2
    /\ emitted[Len(emitted)].kind = "overlay"

AllTransparent(buf) ==
    \A k \in 0..(width * height - 1) : buf[4 * k + 4] = 0

OnlySpaces(us) == \A j \in 1..Len(us) : us[j].text = <<" ">>

\* C5 as stated: on a 2x2 terminal a first frame of transparent pixels
\* queues 4 space updates and the overlay; an identical second frame queues
\* only the overlay
C5_FourSpacesThenOverlay ==
    (Completed /\ width = 2 /\ height = 2) =>
        /\ (frames = 1 /\ AllTransparent(swapchain[i])) =>
              /\ Len(MeshEmitted) = 4
              /\ OnlySpaces(MeshEmitted)
              /\ Len(emitted) = 5
        /\ (frames = 2 /\ swapchain[0] = swapchain[1]) => Len(emitted) = 1

\* C5 amended: a first frame of transparent pixels queues a space update
\* exactly for the pixels that differ from the all-zero initial buffer (none
\* when every pixel is the clear value (0,0,0,0)) and the overlay; an
\* identical second frame queues only the overlay
C5_FirstFrameDelta ==
    Completed =>
        /\ (frames = 1 /\ AllTransparent(swapchain[i])) =>
              /\ Len(MeshEmitted) =
                    Cardinality({k \in 0..(width * height - 1) :
                        \E c \in 1..3 : CurByte(k, c) # 0})
              /\ OnlySpaces(MeshEmitted)
              /\ Len(emitted) = Len(MeshEmitted) + 1
        /\ (frames = 2 /\ swapchain[0] = swapchain[1]) => Len(emitted) = 1

\* scenario A: 2x2 terminal, two frames of clear pixels; the second has
\* queued only the overlay, and so had the first (the screen is still blank
\* outside the overlay text)
C5_Witness ==
    /\ Completed /\ frames = 2 /\ width = 2 /\ height = 2
    /\ swapchain[0] = [k \in 1..16 |-> 0]
    /\ swapchain[1] = [k \in 1..16 |-> 0]
    /\ Len(emitted) = 1
    /\ \A k \in 2..3 : screen[k] = [glyph |-> " ", color |-> <<>>]

RECURSIVE Pow(_, _)
Pow(b, n) == IF n = 0 THEN 1 ELSE b * Pow(b, n - 1)

\* 20^n times the moving average of the durations ds (n = Len(ds))
RECURSIVE WeightedSum(_)
WeightedSum(ds) ==
    IF ds = <<>> THEN 0
    ELSE 19 * WeightedSum(SubSeq(ds, 1, Len(ds) - 1))
         + Pow(20, Len(ds) - 1) * ds[Len(ds)]

\* C7: the smoothed duration starts at 0 and after each frame is
\* 0.95 * smoothed + 0.05 * D: 20 * smoothed = D1 after one frame,
\* 400 * smoothed = 19 * D1 + 20 * D2 after two
C7_MovingAverage ==
    pc = "loop" =>
        /\ frames = Len(durations)
        /\ frames = 0 => frame_average[1] = 0
        /\ frames = 1 => 20 * frame_average[1] = durations[1] * frame_average[2]
        /\ frames = 2 =>
              400 * frame_average[1]
                 = (19 * durations[1] + 20 * durations[2]) * frame_average[2]
        /\ frame_average[2] > 0
        /\ frame_average
              = Reduce(<<WeightedSum(durations), Pow(20, Len(durations))>>)

\* two frames of 20 ms and 0 ms: the average is 19/20 ms
C7_Witness ==
    /\ pc = "loop" /\ frames = 2
    /\ durations = <<20, 0>>
    /\ frame_average = <<19, 20>>

\* C8: the index is 0 or 1 and toggles once per frame; its slot holds the
\* latest rendered image, the other slot the one rendered before it (the
\* blank buffer on the first frame); both slots hold width*height pixels
C8_TwoSlotRing ==
    /\ i \in {0, 1}
    /\ \A s \in {0, 1} : Len(swapchain[s]) = width * height * 4
    /\ pc = "loop" =>
          /\ i = frames % 2
          /\ swapchain[i] = lastRendered
          /\ swapchain[1 - i] = prevRendered

\* after three frames slot 1 holds the third image, slot 0 the second, and
\* the first has been overwritten
C8_Witness ==
    /\ Completed /\ frames = 3 /\ i = 1
    /\ swapchain[1] = lastRendered
    /\ swapchain[0] = prevRendered
    /\ lastRendered # prevRendered

\* C10 as stated: after every completed frame every cell other than (0,0)
\* displays the glyph of the current buffer's pixel at that coordinate
C10_NoStaleCell ==
    Completed =>
        \A k \in 1..(width * height - 1) :
            /\ screen[k].glyph = (IF CurByte(k, 4) = 0 THEN " " ELSE "0")
            /\ CurByte(k, 4) # 0 =>
                  screen[k].color
                     = <<CurByte(k, 1), CurByte(k, 2), CurByte(k, 3)>>

IsPrefix(s, t) == Len(s) <= Len(t) /\ s = SubSeq(t, 1, Len(s))

\* C9: a render call submits, the fence is signalled, the output buffer is
\* read, the call returns, in this order; the buffer is not read and no new
\* submission is made while submitted work is unfinished
C9_SubmitSignalReadReturn ==
    /\ IsPrefix(events, <<"submit", "signal", "read", "return">>)
    /\ in_flight \in {0, 1}
    /\ pc \in {"render", "read", "present", "loop"} => in_flight = 0
    /\ pc = "present" => v = output_buffer

\* the second render call has returned
C9_Witness ==
    /\ pc = "present" /\ frames = 1
    /\ events = <<"submit", "signal", "read", "return">>
    /\ v # swapchain[1 - i]

\* C6 as stated: a mesh with an index >= the vertex count is rejected by
\* Pipeline::new and no such index buffer is uploaded
C6_RejectsOutOfBounds ==
    /\ (\E k \in 1..Len(mesh.indices) :
            mesh.indices[k] >= VertexCount(mesh.positions))
          => (pc # "new" => pc = "exit" /\ index_buffer = <<>>)
    /\ \A k \in 1..Len(index_buffer) :
          index_buffer[k] < VertexCount(vertex_buffer)

====
